---- MODULE Spec2Model ----
(***************************************************************************)
(* catvec: a persistent, relative-indexed B+tree (src/src/btree.rs) behind *)
(* the CatVec facade (src/src/lib.rs), driven the way src/src/bin/fuzz.rs  *)
(* drives it.                                                              *)
(*                                                                         *)
(* Tree nodes live in a heap `mem`: every Tree value (the Box'ed top-level *)
(* tree of a CatVec, every Arc'ed child, every temporary) is one cell with *)
(* a strong count.  A node is a record                                     *)
(*    [leaf, elems, length, children, root]                                *)
(* where children is a sequence of cell ids (Arc handles).                 *)
(* A &mut Tree is the id of a cell; Arc::make_mut copies a cell whose      *)
(* strong count is above one.  A panic (assert!, unwrap, ArrayVec          *)
(* capacity or index error, usize underflow in a debug build) is recorded  *)
(* in mem.err and stops the operation at that point.                       *)
(*                                                                         *)
(* Intermediate results are bound once, as the argument of a local         *)
(* operator:  LET Then(r) == ... r ... IN Then(F(x)).                      *)
(***************************************************************************)
EXTENDS Integers, Sequences, FiniteSets, TLC

VARIABLES ORD, mem, vecs, shadow, last, steps

vars == <<ORD, mem, vecs, shadow, last, steps>>

\* ---------------------------------------------------------------- bounds
\* fanout degrees explored: ORD is the const-generic parameter of CatVec
Orders == {4, 5}
\* number of CatVec variables alive at once
NSlots == 2
\* longest dense array handed to From
MaxLit == 14
\* longest vector grown by insert / push_back / append
MaxLen == 28
\* operations per run
MaxOps == 3
MaxOver == 1

Slots == 1..NSlots

\* ---------------------------------------------------------------- values
\* Option<T>
None == [tag |-> "None"]
Some(x) == [tag |-> "Some", v |-> x]
\* the result of a call that panicked instead of returning
Panicked == [tag |-> "panic"]

Min(a, b) == IF a < b THEN a ELSE b

\* Vec::insert / ArrayVec::insert at 0-based position i
InsertAt(s, i, x) == SubSeq(s, 1, i) \o <<x>> \o SubSeq(s, i + 1, Len(s))

RECURSIVE SumSeq(_)
SumSeq(s) == IF s = <<>> THEN 0 ELSE Head(s) + SumSeq(Tail(s))

\* ---------------------------------------------------------------- heap
Leaf(elems) ==
  [leaf |-> TRUE, elems |-> elems, length |-> 0, children |-> <<>>, root |-> FALSE]

Internal(length, children, root) ==
  [leaf |-> FALSE, elems |-> <<>>, length |-> length, children |-> children, root |-> root]

EmptyMem == [n |-> <<>>, rc |-> <<>>, err |-> ""]

Ok(m) == m.err = ""

Fail(m, why) == IF m.err = "" THEN [m EXCEPT !.err = why] ELSE m

SetNode(m, id, node) == [m EXCEPT !.n[id] = node]

\* a free cell of the heap: strong count 0
Blank == Leaf(<<>>)

FreshId(m) ==
  IF \E i \in 1..Len(m.rc) : m.rc[i] = 0
  THEN CHOOSE i \in 1..Len(m.rc) : m.rc[i] = 0 /\ \A j \in 1..(i - 1) : m.rc[j] # 0
  ELSE Len(m.rc) + 1

AllocAt(m, node, id) ==
  [m  |-> IF id > Len(m.rc)
          THEN [m EXCEPT !.n = Append(@, node), !.rc = Append(@, 1)]
          ELSE [m EXCEPT !.n[id] = node, !.rc[id] = 1],
   id |-> id]

\* Arc::new / Box::new / a local: a cell with strong count 1
Alloc(m, node) == AllocAt(m, node, FreshId(m))

RECURSIVE Trim(_)
Trim(m) ==
  IF m.rc # <<>> /\ m.rc[Len(m.rc)] = 0
  THEN Trim([m EXCEPT !.n = SubSeq(@, 1, Len(@) - 1), !.rc = SubSeq(@, 1, Len(@) - 1)])
  ELSE m

\* the cell itself goes away, its children's handles are moved out by the caller
FreeCell(m, id) == Trim([m EXCEPT !.n[id] = Blank, !.rc[id] = 0])

RECURSIVE IncAll(_, _)
IncAll(m, ids) ==
  IF ids = <<>> THEN m
  ELSE IncAll([m EXCEPT !.rc[Head(ids)] = @ + 1], Tail(ids))

\* impl Drop for Arc<Tree>: the last handle drops the node and its children
RECURSIVE DropHandle(_, _)
RECURSIVE DropAll(_, _)
DropHandle(m, id) ==
  IF m.rc[id] > 1 THEN [m EXCEPT !.rc[id] = @ - 1]
  ELSE DropAll(FreeCell(m, id), m.n[id].children)

DropAll(m, ids) ==
  IF ids = <<>> THEN m
  ELSE DropAll(DropHandle(m, Head(ids)), Tail(ids))

\* #[derive(Clone)] on Tree / Internal: a new cell, every child handle cloned
CloneNode(m, id) == Alloc(IncAll(m, m.n[id].children), m.n[id])

\* Arc::make_mut on a handle that is shared: the owner's slot gets the copy `c`
Repoint(c, owner, idx, h) ==
  [m  |-> [c.m EXCEPT !.rc[h] = @ - 1, !.n[owner].children[idx + 1] = c.id],
   id |-> c.id]

\* a make_mut that hands out the shared node itself
ArcMakeMutInPlace(m, owner, idx) == [m |-> m, id |-> m.n[owner].children[idx + 1]]

\* Arc::make_mut(&mut owner.children[idx]), idx 0-based
ArcMakeMut(m, owner, idx) ==
  IF m.rc[m.n[owner].children[idx + 1]] = 1
  THEN [m |-> m, id |-> m.n[owner].children[idx + 1]]
  ELSE Repoint(CloneNode(m, m.n[owner].children[idx + 1]), owner, idx,
               m.n[owner].children[idx + 1])

\* ---------------------------------------------------------------- reads
\* Tree::len
TreeLen(m, id) == IF m.n[id].leaf THEN Len(m.n[id].elems) ELSE m.n[id].length

\* Tree::children_count
ChildrenCount(m, id) ==
  IF m.n[id].leaf THEN Len(m.n[id].elems) ELSE Len(m.n[id].children)

ChildLens(m, ch) == [i \in 1..Len(ch) |-> TreeLen(m, ch[i])]

\* Internal::key_to_idx_and_offset; ok = FALSE is unreachable!()
RECURSIVE KeyScan(_, _, _, _, _)
\* (variant: a key at the end of a child is routed to that child)
KeyScanInclusive(m, ch, key, idx, offset) ==
  IF idx >= Len(ch) THEN [idx |-> 0, off |-> 0, ok |-> FALSE]
  ELSE IF key - offset <= TreeLen(m, ch[idx + 1]) \/ idx + 1 = Len(ch)
       THEN [idx |-> idx, off |-> offset, ok |-> TRUE]
       ELSE KeyScan(m, ch, key, idx + 1, offset + TreeLen(m, ch[idx + 1]))

KeyScan(m, ch, key, idx, offset) ==
  IF idx >= Len(ch) THEN [idx |-> 0, off |-> 0, ok |-> FALSE]
  ELSE IF key - offset < TreeLen(m, ch[idx + 1]) \/ idx + 1 = Len(ch)
       THEN [idx |-> idx, off |-> offset, ok |-> TRUE]
       ELSE KeyScan(m, ch, key, idx + 1, offset + TreeLen(m, ch[idx + 1]))

KeyToIdxAndOffset(m, id, key) == KeyScan(m, m.n[id].children, key, 0, 0)

\* Tree::get / Internal::get
RECURSIVE TreeGet(_, _, _)
\* (variant: the key is passed down without the offset of the child taken off)
TreeGetAbsolute(m, id, key) ==
  IF m.n[id].leaf
  THEN IF key < Len(m.n[id].elems) THEN Some(m.n[id].elems[key + 1]) ELSE None
  ELSE IF key >= m.n[id].length THEN None
       ELSE LET Found(ko) ==
                  IF ~ko.ok THEN Panicked
                  ELSE TreeGet(m, m.n[id].children[ko.idx + 1], key)
            IN Found(KeyToIdxAndOffset(m, id, key))

TreeGet(m, id, key) ==
  IF m.n[id].leaf
  THEN IF key < Len(m.n[id].elems) THEN Some(m.n[id].elems[key + 1]) ELSE None
  ELSE IF key >= m.n[id].length THEN None
       ELSE LET Found(ko) ==
                  IF ~ko.ok THEN Panicked
                  ELSE TreeGet(m, m.n[id].children[ko.idx + 1], key - ko.off)
            IN Found(KeyToIdxAndOffset(m, id, key))

\* Internal::height / Tree::height
RECURSIVE InternalHeight(_, _)
InternalHeightFlat(m, id) == 1

InternalHeight(m, id) ==
  IF m.n[id].children # <<>> /\ ~m.n[m.n[id].children[1]].leaf
  THEN 1 + InternalHeight(m, m.n[id].children[1])
  ELSE 1

\* (variant: every tree is taken to have one level)
TreeHeightOne(m, id) == 1

TreeHeight(m, id) == IF m.n[id].leaf THEN 0 ELSE InternalHeight(m, id)

\* CatVec::get for every index below len(): the vector as its reader sees it
ToVec(m, id) == [i \in 1..TreeLen(m, id) |-> TreeGet(m, id, i - 1)]

\* a dense array as a reader of a CatVec holding it sees it
Somes(v) == [i \in 1..Len(v) |-> Some(v[i])]

\* ---------------------------------------------------------------- insert
\* Tree::insert / Internal::insert on the cell `id`; the result is the heap and
\* `other`: 0 for None, else the cell of the split-off sibling (Some(other))
RECURSIVE TreeInsert(_, _, _, _)
RECURSIVE InternalInsert(_, _, _, _)

Returned(m, other) == [m |-> m, other |-> other]

\* Some(Tree::Array(other_values))
SplitOff(a) == Returned(a.m, a.id)

\* a leaf split that always writes the value into the kept half
LeafInsertKept(m, id, key, value) ==
  IF Len(m.n[id].elems) < ORD
  THEN Returned(SetNode(m, id, Leaf(InsertAt(m.n[id].elems, Min(key, Len(m.n[id].elems)),
                                             value))), 0)
  ELSE SplitOff(Alloc(SetNode(m, id,
                        Leaf(InsertAt(SubSeq(m.n[id].elems, 1, Len(m.n[id].elems) \div 2),
                                      Min(key, Len(m.n[id].elems) \div 2), value))),
                      Leaf(SubSeq(m.n[id].elems, Len(m.n[id].elems) \div 2 + 1,
                                  Len(m.n[id].elems)))))

\* (variant: an index past the end of the leaf is brought back to its end)
LeafInsertClamped(m, id, key, value) ==
  LET values == m.n[id].elems
      split_point == Len(values) \div 2
      kept == SubSeq(values, 1, split_point)
      other_values == SubSeq(values, split_point + 1, Len(values))
  IN IF Len(values) < ORD
     THEN Returned(SetNode(m, id, Leaf(InsertAt(values, Min(key, Len(values)), value))), 0)
     ELSE IF key >= split_point
          THEN SplitOff(Alloc(SetNode(m, id, Leaf(kept)),
                              Leaf(InsertAt(other_values,
                                            Min(key - split_point, Len(other_values)),
                                            value))))
          ELSE SplitOff(Alloc(SetNode(m, id, Leaf(InsertAt(kept, key, value))),
                              Leaf(other_values)))

\* Tree::insert, the Tree::Array arm
LeafInsert(m, id, key, value) ==
  LET values == m.n[id].elems
      split_point == Len(values) \div 2
      kept == SubSeq(values, 1, split_point)
      other_values == SubSeq(values, split_point + 1, Len(values))
  IN IF Len(values) < ORD
     THEN IF key > Len(values)
          THEN Returned(Fail(m, "ArrayVec::insert: index out of bounds"), 0)
          ELSE Returned(SetNode(m, id, Leaf(InsertAt(values, key, value))), 0)
     ELSE IF key >= split_point
          THEN IF key - split_point > Len(other_values)
               THEN Returned(Fail(SetNode(m, id, Leaf(kept)),
                                  "ArrayVec::insert: index out of bounds"), 0)
               ELSE SplitOff(Alloc(SetNode(m, id, Leaf(kept)),
                                   Leaf(InsertAt(other_values, key - split_point, value))))
          ELSE SplitOff(Alloc(SetNode(m, id, Leaf(InsertAt(kept, key, value))),
                              Leaf(other_values)))

\* Tree::insert
TreeInsert(m, id, key, value) ==
  IF m.n[id].leaf THEN LeafInsert(m, id, key, value)
  ELSE InternalInsert(m, id, key, value)

\* (variant: the split-off sibling is put before the child it was split from)
AdoptBefore(r, id, idx) ==
  IF ~Ok(r.m) THEN r
  ELSE IF r.other # 0 /\ Len(r.m.n[id].children) >= ORD
  THEN Returned(Fail(r.m, "ArrayVec::insert: capacity exceeded"), 0)
  ELSE Returned(SetNode(r.m, id,
                  [r.m.n[id] EXCEPT !.children = IF r.other # 0
                                                 THEN InsertAt(@, idx, r.other)
                                                 ELSE @,
                                    !.length = @ + 1]), 0)

\* (variant: the cached length is not counted up)
AdoptUncounted(r, id, idx) ==
  IF ~Ok(r.m) THEN r
  ELSE IF r.other # 0 /\ Len(r.m.n[id].children) >= ORD
  THEN Returned(Fail(r.m, "ArrayVec::insert: capacity exceeded"), 0)
  ELSE Returned(SetNode(r.m, id,
                  [r.m.n[id] EXCEPT !.children = IF r.other # 0
                                                 THEN InsertAt(@, idx + 1, r.other)
                                                 ELSE @]), 0)

\* Internal::insert, non-full case, after the child took the value:
\* children.insert(idx + 1, Arc::new(other)) if it split, and length += 1
Adopt(r, id, idx) ==
  IF ~Ok(r.m) THEN r
  ELSE IF r.other # 0 /\ Len(r.m.n[id].children) >= ORD
  THEN Returned(Fail(r.m, "ArrayVec::insert: capacity exceeded"), 0)
  ELSE Returned(SetNode(r.m, id,
                  [r.m.n[id] EXCEPT !.children = IF r.other # 0
                                                 THEN InsertAt(@, idx + 1, r.other)
                                                 ELSE @,
                                    !.length = @ + 1]), 0)

\* (variant: the root flag is cleared on the node itself as well)
InterposeUnmarked(c, id) ==
  SetNode(DropAll(SetNode(c.m, c.id, [c.m.n[c.id] EXCEPT !.root = FALSE]),
                  c.m.n[id].children),
          id, [c.m.n[id] EXCEPT !.children = <<c.id>>, !.root = FALSE])

\* Internal::insert, full root: self_copy = self.clone(); self_copy.root = false;
\* self.children.clear(); self.children.push(Arc::new(self_copy))
Interpose(c, id) ==
  SetNode(DropAll(SetNode(c.m, c.id, [c.m.n[c.id] EXCEPT !.root = FALSE]),
                  c.m.n[id].children),
          id, [c.m.n[id] EXCEPT !.children = <<c.id>>])

\* Internal::insert, full non-root: assert!(.. .insert(..).is_none()); Some(other)
SplitDone(r, other) ==
  IF ~Ok(r.m) THEN r
  ELSE IF r.other # 0
  THEN Returned(Fail(r.m, "assertion failed: insert(..).is_none()"), 0)
  ELSE Returned(r.m, other)

\* (variant: a full node is taken for one with room, no level is put over a full
\* root and no full node is split)
InternalInsertNoSplit(m, id, key, value) ==
  LET Into(ko) ==
        IF ~ko.ok THEN Returned(Fail(m, "unreachable: key_to_idx_and_offset"), 0)
        ELSE LET Child(mm) ==
                   Adopt(TreeInsert(mm.m, mm.id, key - ko.off, value), id, ko.idx)
             IN Child(ArcMakeMut(m, id, ko.idx))
  IN Into(KeyToIdxAndOffset(m, id, key))

\* Internal::insert
InternalInsert(m, id, key, value) ==
  IF Len(m.n[id].children) < ORD
  THEN \* non-full case
       LET Into(ko) ==
             IF ~ko.ok THEN Returned(Fail(m, "unreachable: key_to_idx_and_offset"), 0)
             ELSE LET Child(mm) ==
                        Adopt(TreeInsert(mm.m, mm.id, key - ko.off, value), id, ko.idx)
                  IN Child(ArcMakeMut(m, id, ko.idx))
       IN Into(KeyToIdxAndOffset(m, id, key))
  ELSE IF m.n[id].root
  THEN \* full root, adding another level
       InternalInsert(Interpose(CloneNode(m, id), id), id, key, value)
  ELSE \* full non-root: split off half of the children
       LET nd == m.n[id]
           sp == Len(nd.children) \div 2
           other_children == SubSeq(nd.children, sp + 1, Len(nd.children))
           other_len == SumSeq(ChildLens(m, other_children))
           split_point == nd.length - other_len
           Halved(a) ==
             IF nd.length < other_len
             THEN Returned(Fail(a.m, "attempt to subtract with overflow"), 0)
             ELSE IF key >= split_point
             THEN SplitDone(TreeInsert(SetNode(a.m, id, [a.m.n[id] EXCEPT !.length = split_point]),
                                       a.id, key - split_point, value), a.id)
             ELSE SplitDone(InternalInsert(SetNode(a.m, id, [a.m.n[id] EXCEPT !.length = split_point]),
                                           id, key, value), a.id)
       IN Halved(Alloc(SetNode(m, id, [nd EXCEPT !.children = SubSeq(nd.children, 1, sp)]),
                       Internal(other_len, other_children, FALSE)))

\* (variant: the top node is not marked root)
RootOverUnmarked(l) == Alloc(l.m, Internal(0, <<l.id>>, FALSE))

\* Tree::new: a root internal node holding one empty leaf
RootOver(l) == Alloc(l.m, Internal(0, <<l.id>>, TRUE))

TreeNew(m) == RootOver(Alloc(m, Leaf(<<>>)))

\* ---------------------------------------------------------------- facade
\* CatVec::insert: what Tree::insert returns is discarded (dropped)
Discard(r) == IF Ok(r.m) /\ r.other # 0 THEN DropHandle(r.m, r.other) ELSE r.m

CatVecInsert(m, id, idx, val) == Discard(TreeInsert(m, id, idx, val))

\* CatVec::push_back
CatVecPushBack(m, id, val) == CatVecInsert(m, id, TreeLen(m, id), val)

\* From<V> for CatVec: fold of push_back over the dense array, from CatVec::new()
RECURSIVE PushAll(_, _, _)
PushAll(m, id, v) ==
  IF v = <<>> \/ ~Ok(m) THEN m
  ELSE PushAll(CatVecPushBack(m, id, Head(v)), id, Tail(v))

Filled(t, v) == [m |-> PushAll(t.m, t.id, v), id |-> t.id]

CatVecFrom(m, v) == Filled(TreeNew(m), v)

\* ---------------------------------------------------------------- fixup
\* children.retain(|c| c.len() > 0): what stays, and the handles dropped
RECURSIVE Retained(_, _)
Retained(m, ch) ==
  IF ch = <<>> THEN <<>>
  ELSE IF TreeLen(m, Head(ch)) > 0 THEN <<Head(ch)>> \o Retained(m, Tail(ch))
       ELSE Retained(m, Tail(ch))

RECURSIVE Removed(_, _)
Removed(m, ch) ==
  IF ch = <<>> THEN <<>>
  ELSE IF TreeLen(m, Head(ch)) > 0 THEN Removed(m, Tail(ch))
       ELSE <<Head(ch)>> \o Removed(m, Tail(ch))

\* a retain that leaves the cached length as it was
PruneNodeStale(m, id) ==
  SetNode(DropAll(m, Removed(m, m.n[id].children)), id,
          [m.n[id] EXCEPT !.children = Retained(m, m.n[id].children)])

\* fixup_inner on an internal node: children.retain(|c| c.len() > 0);
\* length = children.iter().map(|c| c.len()).sum()
PruneNode(m, id) ==
  SetNode(DropAll(m, Removed(m, m.n[id].children)), id,
          [m.n[id] EXCEPT !.children = Retained(m, m.n[id].children),
                          !.length = SumSeq(ChildLens(m, Retained(m, m.n[id].children)))])

\* a merge that forgets to move the children over
GiveAllChildrenToNobody(m, self, other, is_right) == m

\* Tree::give_all_children_to
GiveAllChildrenTo(m, self, other, is_right) ==
  LET this == m.n[self]
      oth == m.n[other]
  IN IF oth.leaf
     THEN IF ~this.leaf THEN Fail(m, "unwrap_arr called on a non-array node")
          ELSE IF Len(this.elems) + Len(oth.elems) > ORD
          THEN Fail(m, "ArrayVec: capacity exceeded in extend")
          ELSE SetNode(SetNode(m, self, Leaf(<<>>)), other,
                       Leaf(IF is_right THEN oth.elems \o this.elems
                                        ELSE this.elems \o oth.elems))
     ELSE IF this.leaf THEN Fail(m, "unwrap_internal called on non-internal node")
          ELSE IF Len(this.children) + Len(oth.children) > ORD
          THEN Fail(m, "ArrayVec: capacity exceeded in extend")
          ELSE SetNode(SetNode(m, self, [this EXCEPT !.length = 0, !.children = <<>>]),
                       other,
                       [oth EXCEPT !.length = oth.length + this.length,
                                   !.children = IF is_right
                                                THEN oth.children \o this.children
                                                ELSE this.children \o oth.children])

\* steal_children_from, is_right, internal nodes: the while loop
RECURSIVE StealRightLoop(_, _, _)
StealRightLoop(m, self, other) ==
  LET this == m.n[self]
      oth == m.n[other]
      child == oth.children[Len(oth.children)]
      cl == TreeLen(m, child)
  IN IF ~(Len(this.children) < ORD \div 2) THEN m
     ELSE IF oth.children = <<>> THEN Fail(m, "other children ran out")
     ELSE IF oth.length < cl THEN Fail(m, "attempt to subtract with overflow")
     ELSE StealRightLoop(
            SetNode(SetNode(m, other,
                            [oth EXCEPT !.children = SubSeq(@, 1, Len(@) - 1),
                                        !.length = @ - cl]),
                    self,
                    [this EXCEPT !.children = <<child>> \o @, !.length = @ + cl]),
            self, other)

\* steal_children_from, !is_right, internal nodes: for child in drain(0..to_move)
RECURSIVE StealLeftLoop(_, _, _, _)
StealLeftLoop(m, self, other, to_move) ==
  LET this == m.n[self]
      oth == m.n[other]
      child == Head(oth.children)
      cl == TreeLen(m, child)
  IN IF to_move = 0 THEN m
     ELSE IF oth.length < cl THEN Fail(m, "attempt to subtract with overflow")
     ELSE StealLeftLoop(
            SetNode(SetNode(m, other,
                            [oth EXCEPT !.children = Tail(@), !.length = @ - cl]),
                    self,
                    [this EXCEPT !.children = Append(@, child), !.length = @ + cl]),
            self, other, to_move - 1)

\* (variant: the elements are taken from the far edge of the neighbor)
StealElemsFarEdge(m, self, other, is_right, to_move) ==
  LET this == m.n[self]
      oth == m.n[other]
      k == Len(oth.elems)
  IN IF to_move > k
     THEN Fail(m, IF is_right THEN "other children ran out"
                              ELSE "ArrayVec::drain: range out of bounds")
     ELSE IF is_right
     THEN SetNode(SetNode(m, other, Leaf(SubSeq(oth.elems, to_move + 1, k))),
                  self, Leaf(SubSeq(oth.elems, 1, to_move) \o this.elems))
     ELSE SetNode(SetNode(m, other, Leaf(SubSeq(oth.elems, 1, k - to_move))),
                  self, Leaf(this.elems \o SubSeq(oth.elems, k - to_move + 1, k)))

\* steal_children_from between two leaves, `to_move` elements
StealElems(m, self, other, is_right, to_move) ==
  LET this == m.n[self]
      oth == m.n[other]
      k == Len(oth.elems)
  IN IF to_move > k
     THEN Fail(m, IF is_right THEN "other children ran out"
                              ELSE "ArrayVec::drain: range out of bounds")
     ELSE IF is_right
     THEN SetNode(SetNode(m, other, Leaf(SubSeq(oth.elems, 1, k - to_move))),
                  self, Leaf(SubSeq(oth.elems, k - to_move + 1, k) \o this.elems))
     ELSE SetNode(SetNode(m, other, Leaf(SubSeq(oth.elems, to_move + 1, k))),
                  self, Leaf(this.elems \o SubSeq(oth.elems, 1, to_move)))

\* a steal that stops one element short between leaves
StealChildrenFromShort(m, self, other, is_right) ==
  IF m.n[other].leaf
  THEN StealElems(m, self, other, is_right, ORD \div 2 - Len(m.n[self].elems) - 1)
  ELSE IF is_right THEN StealRightLoop(m, self, other)
  ELSE StealLeftLoop(m, self, other, ORD \div 2 - Len(m.n[self].children))

\* Tree::steal_children_from (called with fewer than ORD / 2 children in self)
StealChildrenFrom(m, self, other, is_right) ==
  IF m.n[other].leaf
  THEN IF ~m.n[self].leaf THEN Fail(m, "unwrap_arr called on a non-array node")
       ELSE StealElems(m, self, other, is_right, ORD \div 2 - Len(m.n[self].elems))
  ELSE IF m.n[self].leaf THEN Fail(m, "unwrap_internal called on non-internal node")
  ELSE IF is_right THEN StealRightLoop(m, self, other)
  ELSE IF ORD \div 2 - Len(m.n[self].children) > Len(m.n[other].children)
  THEN Fail(m, "ArrayVec::drain: range out of bounds")
  ELSE StealLeftLoop(m, self, other, ORD \div 2 - Len(m.n[self].children))

FixedUp(m, ret) == [m |-> m, ret |-> ret]

\* (variant: the emptied root is left without a child)
RefillSkipped(a, self) == FreeCell(a.m, a.id)

\* fixup_inner: if fringe.root && fringe.children.is_empty() { push an empty leaf }
Refill(a, self) == SetNode(a.m, self, [a.m.n[self] EXCEPT !.children = <<a.id>>])

\* fixup_inner, the part on self before the cases
PruneSelf(m, self) ==
  IF m.n[self].leaf THEN m
  ELSE LET Pruned(p) ==
             IF p.n[self].root /\ p.n[self].children = <<>>
             THEN Refill(Alloc(p, Leaf(<<>>)), self)
             ELSE p
       IN Pruned(PruneNode(m, self))

\* (variant: an underfull node is always merged into its neighbor)
RebalanceAlwaysMerge(m, self, neighbor, is_right) ==
  IF ChildrenCount(m, self) >= ORD \div 2 THEN m
  ELSE GiveAllChildrenTo(m, self, neighbor, is_right)

\* fixup_inner, cases 2, 3a and 3b, the neighbor pruned
Rebalance(m, self, neighbor, is_right) ==
  IF ChildrenCount(m, self) >= ORD \div 2 THEN m                      \* case 2
  ELSE IF ChildrenCount(m, self) + ChildrenCount(m, neighbor) <= ORD
  THEN GiveAllChildrenTo(m, self, neighbor, is_right)                 \* case 3a
  ELSE StealChildrenFrom(m, self, neighbor, is_right)                 \* case 3b

\* fixup_inner, match neighbor
FixupCases(m, self, neighbor, is_right) ==
  IF neighbor = 0
  THEN \* case 1: no neighbor
       IF ~m.n[self].leaf
       THEN FixedUp(SetNode(m, self, [m.n[self] EXCEPT !.root = TRUE]), TRUE)
       ELSE FixedUp(m, FALSE)
  ELSE FixedUp(Rebalance(IF m.n[neighbor].leaf THEN m ELSE PruneNode(m, neighbor),
                         self, neighbor, is_right), FALSE)

\* Tree::fixup_inner; neighbor = 0 is None.  ret: "should be spun up to the root"
FixupInner(m, self, neighbor, is_right) ==
  FixupCases(PruneSelf(m, self), self, neighbor, is_right)

\* the work stack of fixup holds (&mut Arc<Tree>, level): the handle is the
\* idx-th child slot (0-based) of the cell `owner`
Entries(m, owner, lvl, is_right) ==
  [i \in 1..Len(m.n[owner].children) |->
     [owner |-> owner,
      idx |-> IF is_right THEN i - 1 ELSE Len(m.n[owner].children) - i,
      lvl |-> lvl]]

Target(m, e) == m.n[e.owner].children[e.idx + 1]

Top(stack) == stack[Len(stack)]
Pop(stack) == SubSeq(stack, 1, Len(stack) - 1)

\* fixup: "we first go down all the way to the fringe" (for _ in 0..depth)
RECURSIVE FixupDescend(_, _, _, _)
FixupDescend(m, stack, is_right, k) ==
  IF k = 0 THEN [m |-> m, stack |-> stack]
  ELSE IF stack = <<>>
  THEN [m |-> Fail(m, "called Option::unwrap() on a None value"), stack |-> stack]
  ELSE IF m.n[Target(m, Top(stack))].leaf \/ m.n[Target(m, Top(stack))].children = <<>>
  THEN [m |-> m, stack |-> stack]
  ELSE LET Down(mm) ==
             FixupDescend(mm.m,
                          Pop(stack) \o Entries(mm.m, mm.id, Top(stack).lvl + 1, is_right),
                          is_right, k - 1)
       IN Down(ArcMakeMut(m, Top(stack).owner, Top(stack).idx))

\* fixup: "we attempt to pop a neighbor at the same level"; id = 0 is None
RECURSIVE FixupNeighbor(_, _, _, _)
FixupNeighbor(m, stack, is_right, depth) ==
  IF stack = <<>> THEN [m |-> m, id |-> 0]
  ELSE IF Top(stack).lvl > depth
  THEN [m |-> Fail(m, "assertion failed: elem_level <= depth"), id |-> 0]
  ELSE LET Popped(mm) ==
             IF Top(stack).lvl = depth THEN mm
             ELSE IF ~mm.m.n[mm.id].leaf
             THEN FixupNeighbor(mm.m,
                                Pop(stack) \o Entries(mm.m, mm.id, Top(stack).lvl + 1, is_right),
                                is_right, depth)
             ELSE FixupNeighbor(mm.m, Pop(stack), is_right, depth)
       IN Popped(ArcMakeMut(m, Top(stack).owner, Top(stack).idx))

\* *self = value: the value (cell c, a temporary) is moved into self's cell and
\* the old content of self dropped
Assign(c, self) ==
  LET Moved(node, m1) == SetNode(DropAll(m1, m1.n[self].children), self, node)
  IN Moved(c.m.n[c.id], FreeCell(c.m, c.id))

\* *self = fringe_tip.clone()
AssignClone(m, self, from) == Assign(CloneNode(m, from), self)

Iterated(m, brk) == [m |-> m, brk |-> brk]

\* one iteration of the loop of fixup, from `let (fringe_tip, h) = stack.pop()`
FixupTip(m, self, is_right, depth, tip, rest) ==
  IF tip.lvl > depth THEN Iterated(Fail(m, "assertion failed: h <= depth"), TRUE)
  ELSE IF tip.lvl < depth THEN Iterated(m, TRUE)
  ELSE LET Inner(fi, ft) ==
             IF ~Ok(fi.m) THEN Iterated(fi.m, TRUE)
             ELSE IF fi.ret THEN Iterated(AssignClone(fi.m, self, ft), TRUE)
             ELSE Iterated(fi.m, FALSE)
           Neighbor(nb, ft) ==
             IF ~Ok(nb.m) THEN Iterated(nb.m, TRUE)
             ELSE Inner(FixupInner(nb.m, ft, nb.id, is_right), ft)
           Tip(ft) == Neighbor(FixupNeighbor(ft.m, rest, is_right, depth), ft.id)
       IN Tip(ArcMakeMut(m, tip.owner, tip.idx))

\* one iteration of the loop of fixup; brk = the loop is left
FixupAtDepth(m, self, is_right, depth) ==
  IF m.n[self].leaf
  THEN Iterated(Fail(m, "unwrap_internal called on non-internal node"), TRUE)
  ELSE LET Fringe(d) ==
             IF ~Ok(d.m) \/ d.stack = <<>> THEN Iterated(d.m, TRUE)
             ELSE FixupTip(d.m, self, is_right, depth, Top(d.stack), Pop(d.stack))
       IN Fringe(FixupDescend(m, Entries(m, self, 0, is_right), is_right, depth))

\* for depth in (0..self.height()).rev(): n iterations are left, depth = n - 1
RECURSIVE FixupLoop(_, _, _, _)
FixupLoop(m, self, is_right, n) ==
  IF n = 0 THEN m
  ELSE LET Step(r) == IF r.brk THEN r.m ELSE FixupLoop(r.m, self, is_right, n - 1)
       IN Step(FixupAtDepth(m, self, is_right, n - 1))

\* fixup, after the loop: self.fixup_inner(None, is_right)
FinalFixup(m, self, is_right) ==
  IF ~Ok(m) THEN m ELSE FixupInner(m, self, 0, is_right).m

\* Tree::fixup
Fixup(m, self, is_right) ==
  FinalFixup(FixupLoop(m, self, is_right, TreeHeight(m, self)), self, is_right)

\* ---------------------------------------------------------------- truncation
RECURSIVE TreeDropHead(_, _, _)
RECURSIVE InternalDropHead(_, _, _)

\* Internal::drop_head, from `self.children.drain(0..idx)`
DropFront(m, id, key, ko) ==
  IF ~ko.ok THEN Fail(m, "unreachable: key_to_idx_and_offset")
  ELSE LET Drained(m1) ==
             IF m1.n[id].children = <<>> THEN m1
             ELSE LET First(mm) == TreeDropHead(mm.m, mm.id, key - ko.off)
                  IN First(ArcMakeMut(m1, id, 0))
       IN Drained(SetNode(DropAll(m, SubSeq(m.n[id].children, 1, ko.idx)), id,
                          [m.n[id] EXCEPT !.children = SubSeq(@, ko.idx + 1, Len(@))]))

\* Internal::drop_head
InternalDropHead(m, id, key) ==
  IF key = 0 THEN m
  ELSE IF ~(key <= m.n[id].length) THEN Fail(m, "assertion failed: key <= self.length")
  ELSE DropFront(SetNode(m, id, [m.n[id] EXCEPT !.length = @ - key]), id, key,
                 KeyToIdxAndOffset(m, id, key))

\* Tree::drop_head, the Tree::Array arm: arr.drain(0..key)
ArrDropHead(m, id, key) ==
  IF key > Len(m.n[id].elems) THEN Fail(m, "ArrayVec::drain: range out of bounds")
  ELSE SetNode(m, id, Leaf(SubSeq(m.n[id].elems, key + 1, Len(m.n[id].elems))))

\* Tree::drop_head / Tree::take_head: if internal.root { self.fixup(..) }
FixupIfRoot(m, id, is_right) ==
  IF Ok(m) /\ m.n[id].root THEN Fixup(m, id, is_right) ELSE m

\* Tree::drop_head
TreeDropHead(m, id, key) ==
  IF m.n[id].leaf THEN ArrDropHead(m, id, key)
  ELSE FixupIfRoot(InternalDropHead(m, id, key), id, FALSE)

RECURSIVE TreeTakeHead(_, _, _)
RECURSIVE InternalTakeHead(_, _, _)

\* Internal::take_head, from `self.children.drain(idx + 1..)`
DropBack(m, id, key, ko) ==
  IF ~ko.ok THEN Fail(m, "unreachable: key_to_idx_and_offset")
  ELSE LET Last(mm) == TreeTakeHead(mm.m, mm.id, key - ko.off)
       IN Last(ArcMakeMut(
                 SetNode(DropAll(m, SubSeq(m.n[id].children, ko.idx + 2,
                                           Len(m.n[id].children))),
                         id, [m.n[id] EXCEPT !.children = SubSeq(@, 1, ko.idx + 1)]),
                 id, ko.idx))

\* (variant: the bound of take_head is exclusive)
InternalTakeHeadExclusive(m, id, key) ==
  IF ~(key < m.n[id].length) THEN Fail(m, "assertion failed: key < self.length")
  ELSE DropBack(m, id, key, KeyToIdxAndOffset(m, id, key))

\* Internal::take_head (the cached length is left as it was)
InternalTakeHead(m, id, key) ==
  IF ~(key <= m.n[id].length) THEN Fail(m, "assertion failed: key <= self.length")
  ELSE IF key = m.n[id].length THEN m
  ELSE DropBack(m, id, key, KeyToIdxAndOffset(m, id, key))

\* an arr.drain(key..) that starts one element late
ArrTakeHeadLong(m, id, key) ==
  SetNode(m, id, Leaf(SubSeq(m.n[id].elems, 1, Min(key + 1, Len(m.n[id].elems)))))

\* Tree::take_head, the Tree::Array arm: arr.drain(key..)
ArrTakeHead(m, id, key) ==
  IF key > Len(m.n[id].elems) THEN Fail(m, "ArrayVec::drain: range out of bounds")
  ELSE SetNode(m, id, Leaf(SubSeq(m.n[id].elems, 1, key)))

\* Tree::take_head
TreeTakeHead(m, id, key) ==
  IF m.n[id].leaf THEN ArrTakeHead(m, id, key)
  ELSE FixupIfRoot(InternalTakeHead(m, id, key), id, TRUE)

\* ---------------------------------------------------------------- concat
\* *self = Tree::Internal(Internal { root: true, children: [Arc::new(self.clone())], length })
Wrap(c, id, len) ==
  SetNode(DropAll(c.m, c.m.n[id].children), id, Internal(len, <<c.id>>, TRUE))

\* a pad_once that leaves the root flag of the padded node set
PadOnceKeepRoot(m, id) == Wrap(CloneNode(m, id), id, TreeLen(m, id))

\* Tree::pad_once
PadOnce(m, id) ==
  Wrap(CloneNode(IF m.n[id].leaf THEN m
                 ELSE SetNode(m, id, [m.n[id] EXCEPT !.root = FALSE]), id),
       id, TreeLen(m, id))

\* for _ in lower..higher { pad_once() }
RECURSIVE PadTimes(_, _, _)
PadTimes(m, id, k) == IF k = 0 THEN m ELSE PadTimes(PadOnce(m, id), id, k - 1)

\* concat, two leaves, more than ORD elements: *self = Internal over [l, r]
Pair(a, self, other, len) == SetNode(a.m, self, Internal(len, <<a.id, other>>, TRUE))

\* concat, equal heights, two leaves
ConcatArrays(m, self, other) ==
  LET this == m.n[self].elems
      oth == m.n[other].elems
      h == ORD \div 2
      l == IF Len(this) < h THEN this \o SubSeq(oth, 1, h - Len(this))
           ELSE IF Len(oth) < h THEN SubSeq(this, 1, Len(this) - (h - Len(oth)))
           ELSE this
      r == IF Len(this) < h THEN SubSeq(oth, h - Len(this) + 1, Len(oth))
           ELSE IF Len(oth) < h
                THEN SubSeq(this, Len(this) - (h - Len(oth)) + 1, Len(this)) \o oth
           ELSE oth
  IN IF Len(this) + Len(oth) <= ORD
     THEN SetNode(FreeCell(m, other), self, Leaf(this \o oth))
     ELSE IF Len(this) >= h /\ Len(oth) < h /\ Len(this) < h - Len(oth)
     THEN Fail(m, "attempt to subtract with overflow")
     ELSE Pair(Alloc(SetNode(m, other, Leaf(r)), Leaf(l)), self, other, Len(l) + Len(r))

\* concat, two internal nodes, this underfull:
\* for elem in other.children.drain(0..to_move)
RECURSIVE MoveToThis(_, _, _, _)
MoveToThis(m, self, other, to_move) ==
  LET elem == Head(m.n[other].children)
      el == TreeLen(m, elem)
  IN IF to_move = 0 THEN m
     ELSE IF m.n[other].length < el THEN Fail(m, "attempt to subtract with overflow")
     ELSE MoveToThis(
            SetNode(SetNode(m, other, [m.n[other] EXCEPT !.children = Tail(@),
                                                         !.length = @ - el]),
                    self, [m.n[self] EXCEPT !.children = Append(@, elem),
                                            !.length = @ + el]),
            self, other, to_move - 1)

\* concat, two internal nodes, other underfull:
\* for elem in this.children.drain(start_idx..), the lengths
RECURSIVE MoveToOther(_, _, _, _)
MoveToOther(m, self, other, moved) ==
  LET el == TreeLen(m, Head(moved))
  IN IF moved = <<>> THEN m
     ELSE IF m.n[self].length < el THEN Fail(m, "attempt to subtract with overflow")
     ELSE MoveToOther(
            SetNode(SetNode(m, other, [m.n[other] EXCEPT !.length = @ + el]),
                    self, [m.n[self] EXCEPT !.length = @ - el]),
            self, other, Tail(moved))

\* new_other.extend(other.children.drain(0..)); other.children = new_other
Prepend(m, other, moved) ==
  IF ~Ok(m) THEN m
  ELSE SetNode(m, other, [m.n[other] EXCEPT !.children = moved \o @])

\* (variant: no child changes sides)
ApportionNone(m, self, other) == m

\* concat, two internal nodes, more than ORD children: the apportioning
Apportion(m, self, other) ==
  LET this == m.n[self]
      oth == m.n[other]
      h == ORD \div 2
      start_idx == Len(this.children) - (h - Len(oth.children))
      moved == SubSeq(this.children, start_idx + 1, Len(this.children))
  IN IF Len(this.children) < h
     THEN MoveToThis(m, self, other, h - Len(this.children))
     ELSE IF Len(oth.children) < h /\ start_idx < 0
     THEN Fail(m, "attempt to subtract with overflow")
     ELSE IF Len(oth.children) < h
     THEN Prepend(MoveToOther(SetNode(m, self,
                                      [this EXCEPT !.children = SubSeq(@, 1, start_idx)]),
                              self, other, moved),
                  other, moved)
     ELSE m

\* *self = Tree::Internal(noviy), noviy over [Arc::new(this.clone()), Arc::new(other)]
NewRoot(c, self, other) ==
  SetNode(DropAll(c.m, c.m.n[self].children), self,
          Internal(TreeLen(c.m, c.id) + TreeLen(c.m, other), <<c.id, other>>, TRUE))

\* this.root = false; other.root = false; and the new root over both
Join(m, self, other) ==
  IF ~Ok(m) THEN m
  ELSE NewRoot(CloneNode(SetNode(SetNode(m, self, [m.n[self] EXCEPT !.root = FALSE]),
                                 other, [m.n[other] EXCEPT !.root = FALSE]),
                         self),
               self, other)

\* an absorb whatever the number of children, other's children first
ConcatInternalsSwapped(m, self, other) ==
  SetNode(FreeCell(m, other), self,
          [m.n[self] EXCEPT !.length = @ + m.n[other].length,
                            !.children = m.n[other].children \o @])

\* an absorb whatever the number of children: ArrayVec::extend panics when full
ConcatInternalsAlways(m, self, other) ==
  IF Len(m.n[self].children) + Len(m.n[other].children) > ORD
  THEN Fail(m, "ArrayVec: capacity exceeded in extend")
  ELSE SetNode(FreeCell(m, other), self,
               [m.n[self] EXCEPT !.length = @ + m.n[other].length,
                                 !.children = @ \o m.n[other].children])

\* concat, equal heights, two internal nodes
ConcatInternals(m, self, other) ==
  IF Len(m.n[self].children) + Len(m.n[other].children) <= ORD
  THEN SetNode(FreeCell(m, other), self,
               [m.n[self] EXCEPT !.length = @ + m.n[other].length,
                                 !.children = @ \o m.n[other].children])
  ELSE Join(Apportion(m, self, other), self, other)

\* concat, equal heights: the match on self
ConcatEqual(m, self, other) ==
  IF m.n[self].leaf
  THEN IF ~m.n[other].leaf THEN Fail(m, "unreachable") ELSE ConcatArrays(m, self, other)
  ELSE IF m.n[other].leaf THEN Fail(m, "unreachable") ELSE ConcatInternals(m, self, other)

\* self.fixup(true); self.fixup(false)
FixupBoth(m, self) ==
  IF ~Ok(m) THEN m
  ELSE LET Left(m2) == IF Ok(m2) THEN Fixup(m2, self, FALSE) ELSE m2
       IN Left(Fixup(m, self, TRUE))

\* *self = other
AssignTree(m, self, other) ==
  LET Dropped(m1) == SetNode(FreeCell(m1, other), self, m1.n[other])
  IN Dropped(DropAll(m, m.n[self].children))

\* Tree::concat; `other` is the cell of the tree moved in
RECURSIVE TreeConcat(_, _, _)
TreeConcat(m, self, other) ==
  IF TreeLen(m, self) = 0 THEN AssignTree(m, self, other)
  ELSE IF TreeLen(m, other) = 0 THEN DropHandle(m, other)
  ELSE IF TreeHeight(m, self) = TreeHeight(m, other)
  THEN FixupBoth(ConcatEqual(m, self, other), self)
  ELSE IF TreeHeight(m, self) > TreeHeight(m, other)
  THEN TreeConcat(PadTimes(m, other, TreeHeight(m, self) - TreeHeight(m, other)),
                  self, other)
  ELSE TreeConcat(PadTimes(m, self, TreeHeight(m, other) - TreeHeight(m, self)),
                  self, other)

\* ---------------------------------------------------------------- facade
\* Tree::get_mut / Internal::get_mut followed by a write through the &mut T
RECURSIVE TreeSet(_, _, _, _)
TreeSet(m, id, key, value) ==
  IF m.n[id].leaf
  THEN IF key < Len(m.n[id].elems)
       THEN SetNode(m, id, Leaf([m.n[id].elems EXCEPT ![key + 1] = value]))
       ELSE m
  ELSE IF key >= m.n[id].length THEN m
  ELSE LET Found(ko) ==
             IF ~ko.ok THEN Fail(m, "unreachable: key_to_idx_and_offset")
             ELSE LET Child(mm) == TreeSet(mm.m, mm.id, key - ko.off, value)
                  IN Child(ArcMakeMut(m, id, ko.idx))
       IN Found(KeyToIdxAndOffset(m, id, key))

\* CatVec::slice_into(range); start, end: Option<usize>
Front(m, id, start) ==
  IF Ok(m) /\ start # None THEN TreeDropHead(m, id, start.v) ELSE m

CatVecSliceInto(m, id, start, end) ==
  Front(IF end # None THEN TreeTakeHead(m, id, end.v) ELSE m, id, start)

\* From<CatVec> for Vec: (0..len()).map(|i| get(i).unwrap()); ok is FALSE when
\* an unwrap meets None
IntoVec(m, id) ==
  IF \A i \in 1..TreeLen(m, id) : TreeGet(m, id, i - 1).tag = "Some"
  THEN [ok |-> TRUE, vec |-> [i \in 1..TreeLen(m, id) |-> TreeGet(m, id, i - 1).v]]
  ELSE [ok |-> FALSE, vec |-> <<>>]

\* CatVec::append
CatVecAppend(m, id, other) == TreeConcat(m, id, other)

\* #[derive(Clone)] on CatVec: the Box'ed top node is copied, its children shared
CatVecClone(m, id) == CloneNode(m, id)

\* ---------------------------------------------------------------- the program
\* elements of the dense arrays given to From: distinct, and distinct per variable
LitElem(s, i) == 100 * s + i
Literal(s, n) == [i \in 1..n |-> LitElem(s, i)]
\* the value written by the next insert / push_back / get_mut: in no vector yet
NewElem == 0 - (steps + 1)

Live(s) == vecs[s] # 0
VLen(s) == TreeLen(mem, vecs[s])
Running == Ok(mem) /\ steps < MaxOps
\* a new variable takes the first free slot
FirstFree(s) == ~Live(s) /\ \A t \in 1..(s - 1) : Live(t)
\* the bounds of a range: Unbounded, or Included / Excluded brought to Some(i)
BoundsTo(n) == {None} \cup {Some(i) : i \in 0..n}
Lo(start) == IF start = None THEN 0 ELSE start.v
Hi(end, len) == IF end = None THEN len ELSE end.v

\* the operation that led to the current state
Op(name, s, t, i, start, end) ==
  [op |-> name, s |-> s, t |-> t, i |-> i, start |-> start, end |-> end]

Init ==
  /\ ORD \in Orders
  /\ mem = EmptyMem
  /\ vecs = [s \in Slots |-> 0]
  /\ shadow = [s \in Slots |-> <<>>]
  /\ last = Op("init", 0, 0, 0, None, None)
  /\ steps = 0

Bind(r, s) == mem' = r.m /\ vecs' = [vecs EXCEPT ![s] = r.id]

\* let x: CatVec<_, ORD> = v.into()   (v empty: as CatVec::new())
From(s, n) ==
  /\ Running /\ FirstFree(s)
  /\ Bind(CatVecFrom(mem, Literal(s, n)), s)
  /\ shadow' = [shadow EXCEPT ![s] = Literal(s, n)]
  /\ last' = Op("from", s, 0, n, None, None)
  /\ steps' = steps + 1
  /\ UNCHANGED ORD

\* x.insert(i, v)
Insert(s, i) ==
  /\ Running /\ Live(s) /\ VLen(s) < MaxLen /\ i <= VLen(s)
  /\ mem' = CatVecInsert(mem, vecs[s], i, NewElem)
  /\ shadow' = [shadow EXCEPT ![s] = InsertAt(@, i, NewElem)]
  /\ last' = Op("insert", s, 0, i, None, None)
  /\ steps' = steps + 1
  /\ UNCHANGED <<ORD, vecs>>

\* x.push_back(v)
PushBack(s) ==
  /\ Running /\ Live(s) /\ VLen(s) < MaxLen
  /\ mem' = CatVecPushBack(mem, vecs[s], NewElem)
  /\ shadow' = [shadow EXCEPT ![s] = Append(@, NewElem)]
  /\ last' = Op("push_back", s, 0, VLen(s), None, None)
  /\ steps' = steps + 1
  /\ UNCHANGED <<ORD, vecs>>

\* if let Some(r) = x.get_mut(i) { *r = v }
GetMut(s, i) ==
  /\ Running /\ Live(s) /\ i <= VLen(s)
  /\ mem' = TreeSet(mem, vecs[s], i, NewElem)
  /\ shadow' = [shadow EXCEPT ![s] = IF i < Len(@) THEN [@ EXCEPT ![i + 1] = NewElem] ELSE @]
  /\ last' = Op("get_mut", s, 0, i, None, None)
  /\ steps' = steps + 1
  /\ UNCHANGED <<ORD, vecs>>

\* x.slice_into(start..end), x.slice_into(..end), x.slice_into(start..), x.slice_into(..)
SliceInto(s, start, end) ==
  /\ Running /\ Live(s)
  /\ Lo(start) <= Hi(end, VLen(s)) /\ Hi(end, VLen(s)) <= VLen(s)
  /\ mem' = CatVecSliceInto(mem, vecs[s], start, end)
  /\ shadow' = [shadow EXCEPT ![s] = SubSeq(@, Lo(start) + 1, Hi(end, VLen(s)))]
  /\ last' = Op("slice_into", s, 0, 0, start, end)
  /\ steps' = steps + 1
  /\ UNCHANGED <<ORD, vecs>>

\* x.insert(i, v) with i > x.len(): the call the contract forbids.  The heap
\* afterwards is the heap at the panic; what unwinding drops is left allocated.
InsertBeyond(s, i) ==
  /\ Running /\ Live(s) /\ VLen(s) < i /\ i <= VLen(s) + MaxOver
  /\ mem' = CatVecInsert(mem, vecs[s], i, NewElem)
  /\ last' = Op("insert_beyond", s, 0, i, None, None)
  /\ steps' = steps + 1
  /\ UNCHANGED <<ORD, vecs, shadow>>

\* x.slice_into(start..end) with end > x.len() or start > end
SliceOutside(s, start, end) ==
  /\ Running /\ Live(s)
  /\ Hi(end, VLen(s)) > VLen(s) \/ Lo(start) > Hi(end, VLen(s))
  /\ Hi(end, VLen(s)) <= VLen(s) + MaxOver
  /\ Lo(start) <= Hi(end, VLen(s)) + MaxOver
  /\ mem' = CatVecSliceInto(mem, vecs[s], start, end)
  /\ last' = Op("slice_outside", s, 0, 0, start, end)
  /\ steps' = steps + 1
  /\ UNCHANGED <<ORD, vecs, shadow>>

\* the calls made against the contract
Rejected == {"insert_beyond", "slice_outside"}

\* x.append(y): y is moved into the call
AppendTo(s, t) ==
  /\ Running /\ Live(s) /\ Live(t) /\ s # t /\ VLen(s) + VLen(t) <= MaxLen
  /\ mem' = CatVecAppend(mem, vecs[s], vecs[t])
  /\ vecs' = [vecs EXCEPT ![t] = 0]
  /\ shadow' = [shadow EXCEPT ![s] = @ \o shadow[t], ![t] = <<>>]
  /\ last' = Op("append", s, t, 0, None, None)
  /\ steps' = steps + 1
  /\ UNCHANGED ORD

\* let y = x.clone()
CloneTo(s, t) ==
  /\ Running /\ Live(s) /\ FirstFree(t)
  /\ Bind(CatVecClone(mem, vecs[s]), t)
  /\ shadow' = [shadow EXCEPT ![t] = shadow[s]]
  /\ last' = Op("clone", s, t, 0, None, None)
  /\ steps' = steps + 1
  /\ UNCHANGED ORD

\* drop(x)
DropVec(s) ==
  /\ Running /\ Live(s)
  /\ mem' = DropHandle(mem, vecs[s])
  /\ vecs' = [vecs EXCEPT ![s] = 0]
  /\ shadow' = [shadow EXCEPT ![s] = <<>>]
  /\ last' = Op("drop", s, 0, 0, None, None)
  /\ steps' = steps + 1
  /\ UNCHANGED ORD

\* the variables holding a vector, and the one a new vector would be bound to;
\* none once the program has stopped
Active == IF Running THEN {s \in Slots : Live(s)} ELSE {}
Unbound == IF Running THEN {s \in Slots : FirstFree(s)} ELSE {}

Next ==
  \/ \E s \in Unbound, n \in 0..MaxLit : From(s, n)
  \/ \E s \in Active : \E i \in 0..VLen(s) : Insert(s, i)
  \/ \E s \in Active : PushBack(s)
  \/ \E s \in Active : \E i \in 0..VLen(s) : GetMut(s, i)
  \/ \E s \in Active : \E start \in BoundsTo(VLen(s)), end \in BoundsTo(VLen(s)) :
        SliceInto(s, start, end)
  \/ \E s \in Active, t \in Active : AppendTo(s, t)
  \/ \E s \in Active, t \in Unbound : CloneTo(s, t)
  \/ \E s \in Active : DropVec(s)
  \/ \E s \in Active : \E i \in (VLen(s) + 1)..(VLen(s) + MaxOver) : InsertBeyond(s, i)
  \/ \E s \in Active : \E start \in BoundsTo(VLen(s) + 2 * MaxOver),
                            end \in BoundsTo(VLen(s) + MaxOver) :
        SliceOutside(s, start, end)

Spec == Init /\ [][Next]_vars

\* the same program over CatVec<_, ORD> with an ORD below 4: the const
\* parameter is free, the code has no bound on it.  ORD = 3 is the one explored:
\* with ORD = 1 an insert at the full root puts a level over it for ever, and
\* with ORD = 2 the trees of MaxLit elements are too deep to evaluate.
LowOrders == {3}

InitLowOrd ==
  /\ ORD \in LowOrders
  /\ mem = EmptyMem
  /\ vecs = [s \in Slots |-> 0]
  /\ shadow = [s \in Slots |-> <<>>]
  /\ last = Op("init", 0, 0, 0, None, None)
  /\ steps = 0

SpecLowOrd == InitLowOrd /\ [][Next]_vars

\* ---------------------------------------------------------------- structure
\* the elements stored in the leaves below a cell, left to right
RECURSIVE Flat(_, _)
RECURSIVE FlatAll(_, _)
Flat(m, id) == IF m.n[id].leaf THEN m.n[id].elems ELSE FlatAll(m, m.n[id].children)
FlatAll(m, ch) == IF ch = <<>> THEN <<>> ELSE Flat(m, Head(ch)) \o FlatAll(m, Tail(ch))

\* the cells below (and including) a cell, each with its depth under that cell
RECURSIVE Below(_, _, _)
Below(m, id, d) ==
  {[id |-> id, depth |-> d]} \cup
  UNION {Below(m, m.n[id].children[i], d + 1) : i \in 1..Len(m.n[id].children)}

\* the nodes of the tree of the CatVec in slot s
Cells(s) == Below(mem, vecs[s], 0)
Node(c) == mem.n[c.id]

\* the tree below a cell as a value: what a holder of the cell can observe of it
RECURSIVE TreeOf(_, _)
TreeOf(m, id) ==
  [node |-> [m.n[id] EXCEPT !.children = <<>>],
   kids |-> [i \in 1..Len(m.n[id].children) |-> TreeOf(m, m.n[id].children[i])]]

\* Tree::check_invariants: the two assert_eq! on the cached length of every internal
\* node, and the assert! on the children count of every node not taken as root
\* (a leaf is taken as root there)
RECURSIVE CheckInvariants(_, _)
CheckInvariants(m, id) ==
  /\ ~m.n[id].leaf =>
       /\ \A i \in 1..Len(m.n[id].children) : CheckInvariants(m, m.n[id].children[i])
       /\ TreeLen(m, id) = SumSeq(ChildLens(m, m.n[id].children))
  /\ (~m.n[id].leaf /\ ~m.n[id].root) => ChildrenCount(m, id) >= ORD \div 2

\* ---------------------------------------------------------------- properties

\* C1: insert(i, v) (and push_back, insert at len) on a reachable vector holding
\* s, with i <= len(s): afterwards len() is len(s) + 1, get(i) is v, get(j) is
\* s[j] for every j < i, and get(j + 1) is s[j] for every i <= j < len(s).
C1_InsertShifts ==
  [][last'.op \in {"insert", "push_back"} =>
       LET id == vecs[last'.s]
           i == last'.i
           s == ToVec(mem, id)
       IN /\ Ok(mem')
          /\ TreeLen(mem', id) = Len(s) + 1
          /\ TreeGet(mem', id, i) = Some(NewElem)
          /\ \A j \in 0..(i - 1) : TreeGet(mem', id, j) = s[j + 1]
          /\ \A j \in i..(Len(s) - 1) : TreeGet(mem', id, j + 1) = s[j + 1]]_vars

\* an insert into the middle of a two-level tree of 14 elements has returned
C1_Witness ==
  /\ Ok(mem) /\ last.op = "insert" /\ last.i = 5
  /\ TreeHeight(mem, vecs[last.s]) = 2
  /\ shadow[last.s] = InsertAt(Literal(1, 14), 5, 0 - 2)
  /\ ToVec(mem, vecs[last.s]) = Somes(shadow[last.s])

\* C2: a.append(b) on reachable vectors (either may be empty, the heights may
\* differ either way, b may be a clone of a sharing its nodes): afterwards
\* len(a) is the sum of the two lengths and a reads as the old a followed by b.
C2_AppendConcatenates ==
  [][last'.op = "append" =>
       LET a == vecs[last'.s]
           b == vecs[last'.t]
       IN /\ Ok(mem')
          /\ TreeLen(mem', a) = TreeLen(mem, a) + TreeLen(mem, b)
          /\ ToVec(mem', a) = ToVec(mem, a) \o ToVec(mem, b)]_vars

\* a one-element vector took a two-level tree of 14 elements (the lower tree on
\* the left)
C2_Witness ==
  /\ Ok(mem) /\ last.op = "append" /\ last.s = 2
  /\ shadow[2] = Literal(2, 1) \o Literal(1, 14)
  /\ ToVec(mem, vecs[2]) = Somes(shadow[2])

\* C3: slice_into(lo..hi) with 0 <= lo <= hi <= len(s) on a reachable vector
\* holding s (take_head(hi), then drop_head(lo); an unbounded side skips its
\* call): afterwards len() is hi - lo and get(k) is s[lo + k] for all k < hi - lo.
C3_SliceSelects ==
  [][last'.op = "slice_into" =>
       LET id == vecs[last'.s]
           s == ToVec(mem, id)
           lo == Lo(last'.start)
           hi == Hi(last'.end, TreeLen(mem, id))
       IN /\ Ok(mem')
          /\ TreeLen(mem', id) = hi - lo
          /\ \A k \in 0..(hi - lo - 1) : TreeGet(mem', id, k) = s[lo + k + 1]]_vars

\* 14 elements were sliced to the single element at 6, the first of a leaf
C3_Witness ==
  /\ Ok(mem) /\ last.op = "slice_into"
  /\ last.start = Some(6) /\ last.end = Some(7)
  /\ shadow[last.s] = <<LitElem(1, 7)>>
  /\ ToVec(mem, vecs[last.s]) = <<Some(LitElem(1, 7))>>

C5_CachedLengths ==
  Ok(mem) => \A s \in Slots : Live(s) =>
    /\ \A c \in Cells(s) :
         ~Node(c).leaf => Node(c).length = SumSeq(ChildLens(mem, Node(c).children))
    /\ TreeLen(mem, vecs[s]) = Len(Flat(mem, vecs[s]))

\* slice_into(..9) cut a two-level tree of 14 elements inside a leaf and the
\* tree still has internal nodes below the top
C5_Witness ==
  /\ Ok(mem) /\ last.op = "slice_into"
  /\ last.start = None /\ last.end = Some(9)
  /\ Flat(mem, vecs[last.s]) = Literal(1, 9)
  /\ TreeHeight(mem, vecs[last.s]) = 2

\* C6: after any sequence of operations check_invariants() passes on every
\* vector: the cached lengths add up and every internal node not marked root
\* has at least floor(ORD/2) children.
C6_CheckInvariantsPasses ==
  Ok(mem) => \A s \in Slots : Live(s) => CheckInvariants(mem, vecs[s])

\* two two-level trees of 14 elements were appended (the fuzzer checks there)
C6_Witness ==
  /\ Ok(mem) /\ last.op = "append"
  /\ shadow[last.s] = Literal(1, 14) \o Literal(2, 14)
  /\ ~mem.n[mem.n[vecs[last.s]].children[1]].leaf
  /\ CheckInvariants(mem, vecs[last.s])

\* the top node, and a leaf that is the only child of the top node
Exempt(s, c) ==
  \/ c.depth = 0
  \/ c.depth = 1 /\ Node(c).leaf /\ Len(mem.n[vecs[s]].children) = 1

\* C7 as stated: every node but the root and a leaf that is the root's only
\* child has at least ceil(ORD/2) children (a leaf: elements).
C7_CeilFill ==
  Ok(mem) => \A s \in Slots : Live(s) => \A c \in Cells(s) :
    Exempt(s, c) \/ ChildrenCount(mem, c.id) >= (ORD + 1) \div 2

\* C7: every node but the root and a leaf that is the root's only child has at
\* least floor(ORD/2) children (a leaf: elements), for odd and even ORD.
C7_FloorFill ==
  Ok(mem) => \A s \in Slots : Live(s) => \A c \in Cells(s) :
    Exempt(s, c) \/ ChildrenCount(mem, c.id) >= ORD \div 2

\* with ORD = 5 a leaf that is not alone under the root holds floor(5/2) elements
C7_Witness ==
  /\ Ok(mem) /\ ORD = 5 /\ Live(1)
  /\ \E c \in Cells(1) :
       ~Exempt(1, c) /\ Node(c).leaf /\ ChildrenCount(mem, c.id) = ORD \div 2

\* C8: all leaves of a vector's tree lie at the same depth below its top node.
C8_LeavesSameDepth ==
  Ok(mem) => \A s \in Slots : Live(s) => \A c, d \in Cells(s) :
    (Node(c).leaf /\ Node(d).leaf) => c.depth = d.depth

\* a two-level tree took a one-level tree (padding in concat) and every leaf
\* of the result is two levels down
C8_Witness ==
  /\ Ok(mem) /\ last.op = "append" /\ last.s = 1
  /\ shadow[1] = Literal(1, 14) \o Literal(2, 1)
  /\ \A c \in Cells(1) : Node(c).leaf => c.depth = 2

\* the panics of a push, insert or extend into a full ArrayVec
CapacityErrors ==
  {"ArrayVec: capacity exceeded in extend", "ArrayVec::insert: capacity exceeded"}

\* C9: no operation pushes into a full child array and no node holds more
\* than ORD children (a leaf: elements).
C9_NeverOverfull ==
  /\ mem.err \notin CapacityErrors
  /\ Ok(mem) => \A s \in Slots : Live(s) => \A c \in Cells(s) :
       ChildrenCount(mem, c.id) <= ORD

\* concat absorbed the children of another top node and the top node is full
C9_Witness ==
  /\ Ok(mem) /\ last.op = "append"
  /\ shadow[last.s] # <<>> /\ shadow[last.s][1] = LitElem(1, 1)
  /\ shadow[last.s][Len(shadow[last.s])] = LitElem(2, 5)
  /\ Len(mem.n[vecs[last.s]].children) = ORD

\* C10: in every vector's tree exactly one node is marked root and it is the
\* top node, the one the CatVec holds.
C10_OneRootOnTop ==
  Ok(mem) => \A s \in Slots : Live(s) =>
    /\ ~mem.n[vecs[s]].leaf /\ mem.n[vecs[s]].root
    /\ \A c \in Cells(s) : c.depth > 0 => ~Node(c).root

\* an insert at the front met a full root and put a level over it
C10_Witness ==
  /\ Ok(mem) /\ last.op = "insert" /\ last.i = 0
  /\ TreeHeight(mem, vecs[last.s]) = 2
  /\ Len(Flat(mem, vecs[last.s])) <= 2 * ORD + 3
  /\ mem.n[vecs[last.s]].root
  /\ \E c \in Cells(last.s) : c.depth = 1 /\ ~Node(c).leaf /\ ~Node(c).root

\* the canonical empty form: a root internal node of length 0 over one empty leaf
CanonicalEmpty(m, id) ==
  /\ ~m.n[id].leaf /\ m.n[id].root /\ m.n[id].length = 0
  /\ Len(m.n[id].children) = 1
  /\ m.n[m.n[id].children[1]] = Leaf(<<>>)

\* C11: whenever a vector has len() = 0 once an operation has returned (made
\* empty, sliced to an empty range from a tree of any height, two empty
\* vectors appended), its tree is in the canonical empty form: a root internal
\* node of length 0 whose only child is one empty leaf.
C11_EmptyIsCanonical ==
  Ok(mem) => \A s \in Slots :
    (Live(s) /\ TreeLen(mem, vecs[s]) = 0) => CanonicalEmpty(mem, vecs[s])

\* a clone of a two-level tree was sliced to an empty range in its middle
C11_Witness ==
  /\ Ok(mem) /\ last.op = "slice_into" /\ last.s = 2
  /\ last.start = Some(5) /\ last.end = Some(5)
  /\ vecs[1] # 0 /\ shadow[1] = Literal(1, 14) /\ TreeHeight(mem, vecs[1]) = 2
  /\ TreeLen(mem, vecs[2]) = 0 /\ CanonicalEmpty(mem, vecs[2])

\* C12: get(i) returns an element exactly when i < len(), and None, without
\* a failure, when i >= len(); get reads the tree (&self) and the heap it is
\* given is the heap afterwards.
C12_GetTotal ==
  Ok(mem) => \A s \in Slots : Live(s) => \A i \in 0..(MaxLen + 1) :
    /\ i < TreeLen(mem, vecs[s]) => TreeGet(mem, vecs[s], i).tag = "Some"
    /\ i >= TreeLen(mem, vecs[s]) => TreeGet(mem, vecs[s], i) = None

\* a two-level tree read at its last index and one past it
C12_Witness ==
  /\ Ok(mem) /\ last.op = "from" /\ last.i = 14
  /\ TreeHeight(mem, vecs[last.s]) = 2
  /\ TreeGet(mem, vecs[last.s], 13) = Some(LitElem(last.s, 14))
  /\ TreeGet(mem, vecs[last.s], 14) = None

\* C13: an operation called within its contract (insert at i <= n, slice_into
\* with lo <= hi <= n, and the operations without a precondition) never hits an
\* internal failure: no assertion, unreachable!(), unwrap of None, unwrap_arr /
\* unwrap_internal on the wrong variant, nor an ArrayVec index or capacity check.
C13_NoInternalFailure == last.op \notin Rejected => Ok(mem)

\* the front of a two-level tree was cut inside its first leaf and the
\* rebalancing along the left fringe went through
C13_Witness ==
  /\ Ok(mem) /\ last.op = "slice_into" /\ last.start = Some(1) /\ last.end = None
  /\ Len(shadow[last.s]) = 13 /\ TreeHeight(mem, vecs[last.s]) = 2
  /\ ToVec(mem, vecs[last.s]) = Somes(shadow[last.s])

\* C14: for every dense array v, the CatVec built from it by repeated
\* push_back has len() = len(v) and get(i) = v[i] for every i < len(v), and
\* converting it back gives exactly v; for the empty array, and for arrays
\* whose length crosses ORD, ORD + 1 and 2 * ORD + 1.
C14_RoundTrip ==
  last.op = "from" =>
    /\ Ok(mem)
    /\ TreeLen(mem, vecs[last.s]) = last.i
    /\ \A i \in 0..(last.i - 1) :
         TreeGet(mem, vecs[last.s], i) = Some(Literal(last.s, last.i)[i + 1])
    /\ IntoVec(mem, vecs[last.s]) = [ok |-> TRUE, vec |-> Literal(last.s, last.i)]

\* an array of 2 * ORD + 1 elements went in and came back
C14_Witness ==
  /\ last.op = "from" /\ last.i = 2 * ORD + 1 /\ ORD = 5
  /\ Len(mem.n[vecs[last.s]].children) > 1
  /\ IntoVec(mem, vecs[last.s]).ok
  /\ Len(IntoVec(mem, vecs[last.s]).vec) = 11

\* C15: a call against the contract (insert at i > n, slice_into with hi > n,
\* slice_into with lo > hi) ends in a panic on every reachable tree shape; it
\* never returns normally.
C15_ViolationsPanic == last.op \in Rejected => ~Ok(mem)

\* slice_into(3..2) on a two-level tree: take_head(2) went through and
\* drop_head(3) failed its assertion
C15_Witness ==
  /\ last.op = "slice_outside" /\ last.start = Some(3) /\ last.end = Some(2)
  /\ Len(shadow[last.s]) = 14
  /\ mem.err = "assertion failed: key <= self.length"

\* C16: every mutating operation is all-or-nothing on the logical sequence: a
\* slice_into rejected because lo > hi, or hi > n, and an insert rejected
\* because i > n leave len() and every get(i) of the vector as they were
\* before the call.
C16_AllOrNothing ==
  [][last'.op \in Rejected =>
       /\ TreeLen(mem', vecs'[last'.s]) = TreeLen(mem, vecs[last'.s])
       /\ ToVec(mem', vecs'[last'.s]) = ToVec(mem, vecs[last'.s])]_vars

\* C17: take_head(len()) and drop_head(0) are accepted and leave the logical
\* sequence as it was (len() and every get(i)), the rebalancing pass at the
\* root having run: slice_into(0..), slice_into(..n), slice_into(0..n).
C17_BoundaryNoOp ==
  [][(/\ last'.op = "slice_into"
      /\ last'.start # None \/ last'.end # None
      /\ Lo(last'.start) = 0
      /\ Hi(last'.end, TreeLen(mem, vecs[last'.s])) = TreeLen(mem, vecs[last'.s])) =>
       /\ Ok(mem')
       /\ TreeLen(mem', vecs'[last'.s]) = TreeLen(mem, vecs[last'.s])
       /\ ToVec(mem', vecs'[last'.s]) = ToVec(mem, vecs[last'.s])]_vars

\* slice_into(0..14) on a two-level tree of 14 elements
C17_Witness ==
  /\ Ok(mem) /\ steps = 2 /\ last.op = "slice_into"
  /\ last.start = Some(0) /\ last.end = Some(14)
  /\ shadow[last.s] = Literal(last.s, 14)
  /\ TreeHeight(mem, vecs[last.s]) = 2
  /\ ToVec(mem, vecs[last.s]) = Somes(shadow[last.s])

\* C18: the container enforces ORD >= 4: with an ORD below 4 no vector is
\* made or operated on, new() or the first operation is rejected.
C18_OrdEnforced == (ORD < 4 /\ last.op # "init") => ~Ok(mem)

\* what key_to_idx_and_offset(key) = (idx, off) has to satisfy on the node `id`
RoutedRight(m, id, key, ko) ==
  /\ ko.ok
  /\ ko.idx < Len(m.n[id].children)
  /\ ko.off = SumSeq(ChildLens(m, SubSeq(m.n[id].children, 1, ko.idx)))
  /\ key < m.n[id].length =>
       /\ ko.off <= key
       /\ key < ko.off + TreeLen(m, m.n[id].children[ko.idx + 1])
  /\ key = m.n[id].length => ko.idx + 1 = Len(m.n[id].children)

\* C19: on every internal node with at least one child and for every key <=
\* length, key_to_idx_and_offset(key) returns (idx, off) with off the sum of the
\* lengths of children[0..idx); for key < length, off <= key < off +
\* len(children[idx]); for key = length the last child; it never reaches its
\* unreachable!().
C19_KeyToIdxAndOffset ==
  /\ mem.err # "unreachable: key_to_idx_and_offset"
  /\ Ok(mem) => \A s \in Slots : Live(s) => \A c \in Cells(s) :
       (~Node(c).leaf /\ Node(c).children # <<>>) =>
         \A key \in 0..Node(c).length :
           RoutedRight(mem, c.id, key, KeyToIdxAndOffset(mem, c.id, key))

\* a node with three children or more, a key routed past its first child and
\* one routed, at key = length, to its last
C19_Witness ==
  /\ Ok(mem) /\ last.op = "from" /\ last.i = 14
  /\ \E c \in Cells(last.s) :
       /\ ~Node(c).leaf /\ Len(Node(c).children) >= 3
       /\ \E key \in 1..(Node(c).length - 1) :
            /\ KeyToIdxAndOffset(mem, c.id, key).idx = 1
            /\ KeyToIdxAndOffset(mem, c.id, key).off > 0
       /\ KeyToIdxAndOffset(mem, c.id, Node(c).length).idx + 1 = Len(Node(c).children)

\* the failures of a split that goes up: children.insert(idx + 1, ..) into a
\* full node, and the assert!(.. .insert(key, value).is_none()) of both halves
SplitCascadeErrors ==
  {"ArrayVec::insert: capacity exceeded", "assertion failed: insert(..).is_none()"}

\* C20: whenever the insertion into a child returns a split-off sibling, the
\* parent has fewer than ORD children, so the sibling goes in at child_idx + 1
\* without overflow; and after a full non-root internal node is split at
\* floor(c / 2), the insertion into the chosen half returns no sibling: both
\* assertions hold, for ORD even and odd.
C20_SplitCascade == mem.err \notin SplitCascadeErrors

\* a push_back met a full root over full leaves: a level went over the root,
\* the old root was split, the half taking the value adopted the sibling of its
\* split leaf, and the new root adopted the split-off half
C20_Witness ==
  /\ Ok(mem) /\ steps = 2 /\ last.op = "push_back"
  /\ Len(shadow[last.s]) = 2 * ORD + 2
  /\ TreeHeight(mem, vecs[last.s]) = 2
  /\ Len(mem.n[vecs[last.s]].children) = 2
  /\ \A c \in Cells(last.s) : c.depth = 1 => ~Node(c).leaf
  /\ ToVec(mem, vecs[last.s]) = Somes(shadow[last.s])

\* the tree once a level is put over the full root `id`, before the insert is retried
Interposed(m, id) == Interpose(CloneNode(m, id), id)

\* what the interposition leaves: the copy of the old root, its flag cleared,
\* as the only child of the root, holding the children the root held
SoleChildIsOldRoot(m, id, mid) ==
  /\ Len(mid.n[id].children) = 1 /\ mid.n[id].root
  /\ mid.n[mid.n[id].children[1]] = [m.n[id] EXCEPT !.root = FALSE]
  /\ TreeLen(mid, id) = TreeLen(m, id)
  /\ ToVec(mid, id) = ToVec(m, id)

\* C21: an insert makes the tree one level higher if the root has ORD children
\* when the insert starts, and leaves the height as it was otherwise; when a
\* level is interposed the copy of the old root is the sole child of the root,
\* its root flag cleared, and the sequence read before the retried insert is
\* the one before the call.
C21_HeightGrowsAtFullRoot ==
  [][last'.op \in {"insert", "push_back"} =>
       IF Len(mem.n[vecs[last'.s]].children) = ORD
       THEN /\ TreeHeight(mem', vecs'[last'.s]) = TreeHeight(mem, vecs[last'.s]) + 1
            /\ SoleChildIsOldRoot(mem, vecs[last'.s], Interposed(mem, vecs[last'.s]))
       ELSE TreeHeight(mem', vecs'[last'.s]) = TreeHeight(mem, vecs[last'.s])]_vars

\* an insert at index 1 met a root of ORD leaves and the tree has two levels now
C21_Witness ==
  /\ Ok(mem) /\ steps = 2 /\ last.op = "insert" /\ last.i = 1
  /\ Len(shadow[last.s]) = 2 * ORD + 2
  /\ TreeHeight(mem, vecs[last.s]) = 2
  /\ Len(mem.n[vecs[last.s]].children) = 2

\* concat, heights unequal: the heap once the lower tree is padded
Levelled(m, self, other) ==
  IF TreeHeight(m, self) > TreeHeight(m, other)
  THEN PadTimes(m, other, TreeHeight(m, self) - TreeHeight(m, other))
  ELSE PadTimes(m, self, TreeHeight(m, other) - TreeHeight(m, self))

\* concat, equal heights, more than ORD children: the heap at `*self = noviy`,
\* before the two fixup passes
Rebalanced(m, self, other) == Join(Apportion(m, self, other), self, other)

\* a side of the new root: not root, floor(ORD / 2) to ORD children, length right
SideRight(r, id) ==
  /\ ~r.n[id].leaf /\ ~r.n[id].root
  /\ ORD \div 2 <= Len(r.n[id].children) /\ Len(r.n[id].children) <= ORD
  /\ r.n[id].length = SumSeq(ChildLens(r, r.n[id].children))

\* r: the heap after the rebalancing step of concat(self, other) started in m
TwoSidesRight(m, r, self, other) ==
  /\ Ok(r)
  /\ r.n[self].root /\ Len(r.n[self].children) = 2
  /\ r.n[self].children[2] = other
  /\ r.n[self].length = m.n[self].length + m.n[other].length
  /\ SideRight(r, r.n[self].children[1]) /\ SideRight(r, other)
  /\ r.n[r.n[self].children[1]].children \o r.n[other].children
       = m.n[self].children \o m.n[other].children
  /\ r.n[self].length = r.n[r.n[self].children[1]].length + r.n[other].length

\* concat of two non-empty trees brought to one height: if the two top nodes
\* hold more than ORD children together, the rebalancing step is right
ConcatStepRight(m, self, other) ==
  Len(m.n[self].children) + Len(m.n[other].children) > ORD =>
    TwoSidesRight(m, Rebalanced(m, self, other), self, other)

\* C22: in a concat of two internal nodes of one height with more than ORD
\* children together, after the rebalancing step each side holds at least
\* floor(ORD / 2) and at most ORD children, the children are in their order,
\* each side's cached length is the sum of its children's, both sides have the
\* root flag cleared, and the new root has these two children and the total
\* length.
C22_ConcatRebalance ==
  [][(/\ last'.op = "append"
      /\ TreeLen(mem, vecs[last'.s]) > 0 /\ TreeLen(mem, vecs[last'.t]) > 0) =>
       ConcatStepRight(Levelled(mem, vecs[last'.s], vecs[last'.t]),
                       vecs[last'.s], vecs[last'.t])]_vars

\* two one-level trees with more than ORD leaves together were appended: the
\* result has two levels
C22_Witness ==
  /\ Ok(mem) /\ steps = 3 /\ last.op = "append" /\ ORD = 4
  /\ Len(shadow[last.s]) = 14 /\ shadow[last.s][10] = LitElem(2, 1)
  /\ TreeHeight(mem, vecs[last.s]) = 2
  /\ Len(mem.n[vecs[last.s]].children) = 2

\* the root is compact: it does not hold one child only that is an internal node
Compact(m, id) ==
  ~(Len(m.n[id].children) = 1 /\ ~m.n[m.n[id].children[1]].leaf)

\* C23: after every operation that runs the rebalancing pass (slice_into with
\* its take_head and drop_head, append) the root is compact: it never has
\* exactly one child that is itself an internal node.
C23_RootCompact ==
  (Ok(mem) /\ last.op \in {"slice_into", "append"}) => Compact(mem, vecs[last.s])

\* a fixup pass on the tree `id` of the heap m ends and leaves the elements in
\* the leaves, read left to right, as they were
FixupKeeps(m, id, is_right) ==
  LET Kept(r) == Ok(r) /\ Flat(r, id) = Flat(m, id)
  IN Ok(m) => Kept(Fixup(m, id, is_right))

\* slice_into(start..end) from the heap m: the pass after the cut of take_head
\* and the pass after the cut of drop_head
SliceFixupsKeep(m, id, start, end) ==
  /\ end # None => FixupKeeps(InternalTakeHead(m, id, end.v), id, TRUE)
  /\ start # None =>
       FixupKeeps(InternalDropHead(IF end # None THEN TreeTakeHead(m, id, end.v) ELSE m,
                                   id, start.v),
                  id, FALSE)

\* concat of two non-empty trees brought to one height in m: fixup(true), then
\* fixup(false) on what it left
ConcatFixupsKeep(m, self, other) ==
  /\ FixupKeeps(ConcatEqual(m, self, other), self, TRUE)
  /\ FixupKeeps(Fixup(ConcatEqual(m, self, other), self, TRUE), self, FALSE)

\* C24: the rebalancing pass never changes the logical sequence: in either
\* direction, run on the tree a truncation or a concat has produced, it leaves
\* every element once and in its place (merging a node into its neighbor,
\* stealing from the neighbor's near edge, pruning empty children, promoting
\* a node to root).
C24_FixupKeepsSequence ==
  [][/\ last'.op = "slice_into" =>
          SliceFixupsKeep(mem, vecs[last'.s], last'.start, last'.end)
     /\ (/\ last'.op = "append"
         /\ TreeLen(mem, vecs[last'.s]) > 0 /\ TreeLen(mem, vecs[last'.t]) > 0) =>
          ConcatFixupsKeep(Levelled(mem, vecs[last'.s], vecs[last'.t]),
                           vecs[last'.s], vecs[last'.t])]_vars

\* a two-level tree was cut at both ends inside its outer leaves: both passes
\* ran, one along each fringe
C24_Witness ==
  /\ Ok(mem) /\ steps = 2 /\ last.op = "slice_into"
  /\ last.start = Some(1) /\ last.end = Some(13)
  /\ shadow[last.s] = SubSeq(Literal(last.s, 14), 2, 13)
  /\ Flat(mem, vecs[last.s]) = shadow[last.s]

\* C25: index and length arithmetic never wraps in a sequence of operations
\* called within their contracts: no usize subtraction goes below zero
\* (length -= child.len() in the steal and concat loops, with the stale lengths
\* take_head leaves; self.length - other.len() in the split; this.len() -
\* to_move in concat), and the offset key_to_idx_and_offset takes off a key
\* never exceeds the key.
C25_NoWrap ==
  last.op \notin Rejected =>
    /\ mem.err # "attempt to subtract with overflow"
    /\ Ok(mem) => \A s \in Slots : Live(s) => \A c \in Cells(s) :
         ~Node(c).leaf =>
           \A key \in 0..Node(c).length : KeyToIdxAndOffset(mem, c.id, key).off <= key

\* the end of a two-level tree was cut: the pass along the right fringe ran
\* on the cached lengths take_head had left stale
C25_Witness ==
  /\ Ok(mem) /\ steps = 2 /\ last.op = "slice_into"
  /\ last.start = None /\ last.end = Some(11)
  /\ Len(shadow[last.s]) = 11 /\ TreeLen(mem, vecs[last.s]) = 11
  /\ TreeHeight(mem, vecs[last.s]) = 2

\* the top node of a CatVec: internal and marked root
TopIsRoot(m, id) == ~m.n[id].leaf /\ m.n[id].root

\* C26: on every reachable CatVec the top-level tree is an internal node marked
\* root (never a bare leaf, never an unmarked internal node), so the insert on
\* the top-level tree returns no split-off sibling, and CatVec::insert, which
\* discards what it returns, loses no element.
C26_InsertDiscardsNothing ==
  [][Ok(mem') =>
       /\ \A s \in Slots : vecs'[s] # 0 => TopIsRoot(mem', vecs'[s])
       /\ last'.op \in {"insert", "push_back"} =>
            /\ TreeInsert(mem, vecs[last'.s], last'.i, NewElem).other = 0
            /\ Flat(mem', vecs'[last'.s])
                 = InsertAt(Flat(mem, vecs[last'.s]), last'.i, NewElem)]_vars

\* an insert at the end met a full root: the node the root split off went
\* under the root, and all the elements are there
C26_Witness ==
  /\ Ok(mem) /\ steps = 2 /\ last.op = "insert" /\ last.i = 2 * ORD + 1
  /\ Len(shadow[last.s]) = 2 * ORD + 2
  /\ TopIsRoot(mem, vecs[last.s])
  /\ Flat(mem, vecs[last.s]) = shadow[last.s]

\* the depths at which the leaves of the tree `id` lie
LeafDepths(m, id) == {c.depth : c \in {b \in Below(m, id, 0) : m.n[b.id].leaf}}

\* the retry of insert after the interposition meets a root with room: it takes
\* the non-full branch, which does not retry
RetryOnce(m, id) ==
  Len(m.n[id].children) >= ORD => Len(Interposed(m, id).n[id].children) < ORD

\* the recursive concat after the padding, in the heap p, meets two non-empty
\* trees of one height: it takes the equal-height branch, which does not recurse
RecurseOnce(p, self, other) ==
  /\ Ok(p)
  /\ TreeLen(p, self) > 0 /\ TreeLen(p, other) > 0
  /\ TreeHeight(p, self) = TreeHeight(p, other)
  /\ LeafDepths(p, self) = LeafDepths(p, other)

\* C27: every operation ends, for ORD >= 4: the retry of insert at a full root
\* happens once (after the interposition the root has one child and is not
\* full); concat on trees of different heights pads the lower one until the
\* heights are equal and recurses once, into the equal-height branch; a
\* rebalancing pass makes height() iterations at most.
C27_OperationsEnd ==
  [][/\ last'.op \in {"insert", "push_back"} => RetryOnce(mem, vecs[last'.s])
     /\ (/\ last'.op = "append"
         /\ TreeLen(mem, vecs[last'.s]) > 0 /\ TreeLen(mem, vecs[last'.t]) > 0) =>
          RecurseOnce(Levelled(mem, vecs[last'.s], vecs[last'.t]),
                      vecs[last'.s], vecs[last'.t])
     /\ last'.op \notin Rejected => Ok(mem')]_vars

\* a one-level tree was appended to a two-level tree: it was padded once
C27_Witness ==
  /\ Ok(mem) /\ steps = 3 /\ last.op = "append"
  /\ Len(shadow[last.s]) = 17 /\ shadow[last.s][15] = LitElem(2, 1)
  /\ shadow[last.s][1] = LitElem(1, 1)
  /\ Flat(mem, vecs[last.s]) = shadow[last.s]

====
